---- MODULE Spec2Model ----
(***************************************************************************)
(* Texture atlas allocator of WorldSeed-ConstructBabel (crate wscb-atlas,  *)
(* with the geometry of wscb-type and the texture wrapper of wscb-sdl).    *)
(*                                                                         *)
(* PointUnit is an unsigned integer of UnitBits bits with saturating       *)
(* arithmetic; the signed type of the same width (i32 in the source) is    *)
(* what `as i32` casts to.  An AtlasManager is a list of segments, each a  *)
(* texture with a shelf-packing cursor, plus current_index.                *)
(***************************************************************************)
EXTENDS Integers, Naturals, Sequences, FiniteSets, TLC

\* ------------------------------------------------------------------ bounds
UnitBits == 4
MaxReq == 2
MaxDefault == 2
MaxPadding == 1
MaxSubmitted == 3
MaxBatch == 2
MaxTargets == 2
MaxAcquire == 3
MaxCopy == 2
MaxOffset == 1
MaxPitch == 4

\* ------------------------------------------------------- integer widths
UnitMax == 2^UnitBits - 1
I32Max == 2^(UnitBits - 1) - 1
PointUnit == 0..UnitMax

saturating_add_Wrapping(a, b) == (a + b) % (2^UnitBits)
saturating_add(a, b) == IF a + b > UnitMax THEN UnitMax ELSE a + b
saturating_sub(a, b) == IF a < b THEN 0 ELSE a - b
saturating_mul(a, b) == IF a * b > UnitMax THEN UnitMax ELSE a * b
Max(a, b) == IF a >= b THEN a ELSE b
Min(a, b) == IF a <= b THEN a ELSE b

\* `x as i32` of an unsigned value: two's complement reinterpretation
AsI32(x) == IF x > I32Max THEN x - 2^UnitBits ELSE x

\* ------------------------------------------------------------- geometry
PointNew(x, y) == [x |-> x, y |-> y]
SizeNew(w, h) == [width |-> w, height |-> h]
RectFrom(position, size) == [position |-> position, size |-> size]

outset(size, p) ==
    SizeNew(saturating_add(size.width, saturating_mul(p, 2)),
            saturating_add(size.height, saturating_mul(p, 2)))

\* Rect::inset
inset(rect, p) ==
    RectFrom(PointNew(saturating_add(rect.position.x, p),
                      saturating_add(rect.position.y, p)),
             SizeNew(saturating_sub(rect.size.width, saturating_mul(p, 2)),
                     saturating_sub(rect.size.height, saturating_mul(p, 2))))

max_dimension(a, b) == SizeNew(Max(a.width, b.width), Max(a.height, b.height))

\* ------------------------------------------------------------- Option
None == [some |-> FALSE, value |-> PointNew(0, 0)]
Some(p) == [some |-> TRUE, value |-> p]

\* --------------------------------------------------------- AtlasSegment
\* A Dynamic segment: its texture (identity and the size fixed at creation)
\* and the shelf cursor.  Two history fields are not in the source: allocated
\* holds, in order, the rectangle (returned origin, request) of every allocate
\* call that returned Some on the segment; lost holds the rect of every
\* allocation on the segment that allocate_then_copy_surface made and then
\* returned an error for, with the number of handles returned until then.
DynamicSegment(tex, size) ==
    [kind |-> "Dynamic", texture |-> tex, size |-> size,
     current_position |-> PointNew(0, 0), current_line_height |-> 0,
     allocated |-> <<>>, lost |-> <<>>]

\* Texture::size of a live texture: the size it was created with
TextureSize(seg) == seg.size

\* result of AtlasSegment::allocate: the Option<Point> and the segment after
Failed_ClearsLine(seg) ==
    [result |-> None, seg |-> [seg EXCEPT !.current_line_height = 0]]
Failed(seg) == [result |-> None, seg |-> seg]
Allocated(seg, origin, new_pen, new_line_height) ==
    [result |-> Some(origin),
     seg |-> [seg EXCEPT !.current_position = new_pen,
                         !.current_line_height = new_line_height]]

\* the request can never fit a texture of this size
TooLarge_Never(request, surface_width, surface_height) == FALSE
TooLarge(request, surface_width, surface_height) ==
    request.height > surface_height \/ request.width > surface_width

\* "current line is enough": allocate at the pen
CurrentLineFit_OverwriteHeight(seg, request) ==
    LET new_pen == seg.current_position
    IN  Allocated(seg, new_pen,
                  PointNew(saturating_add(new_pen.x, request.width), new_pen.y),
                  request.height)
CurrentLineFit(seg, request) ==
    LET new_pen == seg.current_position
        new_line_height == Max(seg.current_line_height, request.height)
    IN  Allocated(seg, new_pen,
                  PointNew(saturating_add(new_pen.x, request.width), new_pen.y),
                  new_line_height)

\* "try next line": advance the local copy of the cursor, then test it
NextLineFit_WritesCursorFirst(seg, request, surface_height) ==
    LET new_y == saturating_add(seg.current_position.y, seg.current_line_height)
        new_pen == PointNew(0, new_y)
        new_line_height == request.height
    IN  IF saturating_add(new_pen.y, request.height) > surface_height
        THEN [result |-> None,
              seg |-> [seg EXCEPT !.current_position = new_pen,
                                  !.current_line_height = new_line_height]]
        ELSE Allocated(seg, new_pen,
                       PointNew(saturating_add(new_pen.x, request.width), new_pen.y),
                       new_line_height)
NextLineFit_Unchecked(seg, request, surface_height) ==
    LET new_y == saturating_add(seg.current_position.y, seg.current_line_height)
        new_pen == PointNew(0, new_y)
    IN  Allocated(seg, new_pen,
                  PointNew(saturating_add(new_pen.x, request.width), new_pen.y),
                  request.height)
NextLineFit(seg, request, surface_height) ==
    LET new_y == saturating_add(seg.current_position.y, seg.current_line_height)
        new_pen == PointNew(0, new_y)
        new_line_height == request.height
    IN  IF saturating_add(new_pen.y, request.height) > surface_height
        THEN Failed(seg)
        ELSE Allocated(seg, new_pen,
                       PointNew(saturating_add(new_pen.x, request.width), new_pen.y),
                       new_line_height)

\* the history field of the segment after an allocate call returned r
Counted(r, request) ==
    IF ~r.result.some THEN r
    ELSE [r EXCEPT !.seg.allocated = Append(@, RectFrom(r.result.value, request))]

\* AtlasSegment::allocate
SegAllocate(seg, request) ==
    IF seg.kind = "Static" THEN Failed(seg)
    ELSE
    LET size == TextureSize(seg)
        surface_height == AsI32(size.height)
        surface_width == AsI32(size.width)
        new_pen == seg.current_position
    IN  Counted(IF TooLarge(request, surface_width, surface_height)
                THEN Failed(seg)
                ELSE IF saturating_add(new_pen.y, request.height) > surface_height
                THEN Failed(seg)
                ELSE IF saturating_add(new_pen.x, request.width) <= surface_width
                THEN CurrentLineFit(seg, request)
                ELSE NextLineFit(seg, request, surface_height),
                request)

\* AtlasSegment::allocate_with_padding; inner_request and inner_result are
\* the argument and the return value of the AtlasSegment::allocate it calls
SegAllocateWithPadding_Unshifted(seg, request, pad) ==
    LET padded == outset(request, pad)
        r == SegAllocate(seg, padded)
    IN  [result |-> r.result, seg |-> r.seg,
         inner_request |-> padded, inner_result |-> r.result]
SegAllocateWithPadding(seg, request, pad) ==
    LET padded == outset(request, pad)
        r == SegAllocate(seg, padded)
    IN  [result |-> IF ~r.result.some THEN None
                    ELSE Some(PointNew(saturating_add(r.result.value.x, pad),
                                       saturating_add(r.result.value.y, pad))),
         seg |-> r.seg,
         inner_request |-> padded,
         inner_result |-> r.result]

\* ----------------------------------------------------------------- state
VARIABLES
    segments,        \* AtlasManager.segments (1-based here, 0-based in the source)
    current_index,   \* AtlasManager.current_index (0-based, as in the source)
    padding,         \* AtlasManager.padding
    default_size,    \* AtlasManager.default_size
    pixel_format,    \* AtlasManager.pixel_format
    next_texture,    \* identity of the next texture the backend creates
    submitted,       \* requests submitted: one per call, one per source of a batch
    pc,              \* "idle", or "batch" inside allocate_then_copy_surfaces
    batch,           \* locals of the running allocate_then_copy_surfaces
    events,          \* lock / blit / unlock of the current or latest upload call
    handles,         \* every TextureHandle returned so far, in order of return
    last,            \* the latest AtlasManager::allocate call, whoever made it
    ret,             \* what the latest completed call returned
    panicked,        \* the expect() of AtlasManager::allocate fired
    renderer,        \* the Renderer: its render target and the live guards
    invocation       \* the latest call of a function that has no state of its own

atlas == <<segments, current_index, padding, default_size, pixel_format,
           next_texture, submitted, pc, batch, events, handles, last, ret, panicked>>
vars == <<atlas, renderer, invocation>>

manager == <<segments, current_index, next_texture>>
config == <<padding, default_size, pixel_format>>

\* ----------------------------------------------------------------- inputs
ReqDims == 0..MaxReq
Requests ==
    {SizeNew(w, h) : w \in ReqDims, h \in ReqDims}
    \cup {SizeNew(UnitMax, 1), SizeNew(1, UnitMax)}
DefaultDims == (MaxDefault - 1)..MaxDefault
Paddings == (0..MaxPadding) \cup {UnitMax}

\* pixel formats, by SDL_BITSPERPIXEL: RGBA32 has 32 bits, INDEX4 has 4
Formats == {"RGBA32", "INDEX4"}
BitsPerPixel(format) == IF format = "RGBA32" THEN 32 ELSE 4

\* source surfaces: a format and a size (Surface::format, Surface::size)
SurfaceDims == 1..MaxReq
\* (the size of a surface of another format than the manager's is never read)
Surfaces ==
    {[format |-> pixel_format, size |-> SizeNew(w, h)] :
        w \in SurfaceDims, h \in SurfaceDims}
    \cup {[format |-> f, size |-> SizeNew(1, 1)] : f \in Formats \ {pixel_format}}

\* `source.format() != self.pixel_format`
FormatMismatch_Never(source) == FALSE
FormatMismatch(source) == source.format # pixel_format

\* Surface::size
SurfaceSize_Transposed(source) == SizeNew(source.size.height, source.size.width)
SurfaceSize(source) == source.size

\* Option<Rect> arguments: None, or the last pixel of the surface's first row
NoRect == [some |-> FALSE, rect |-> RectFrom(PointNew(0, 0), SizeNew(0, 0))]
SourceRects(source) ==
    {NoRect,
     [some |-> TRUE,
      rect |-> RectFrom(PointNew(source.size.width - 1, 0), SizeNew(1, 1))]}

\* ---------------------------------------------------------- TextureHandle
NoHandle == [index |-> 0, rect |-> RectFrom(PointNew(0, 0), SizeNew(0, 0))]

\* the one-based index stored in a handle: `index.strict_add(1)`
HandleIndex_ZeroBased(idx) == idx
HandleIndex(idx) == idx + 1

\* ---------------------------------------------------------- AtlasManager
\* Renderer::create_texture: `w as i32`, `h as i32` go to the backend, which
\* rejects a non-positive dimension; it may also fail for its own reasons.
CreateTextureOk(size, backend_ok) ==
    backend_ok /\ AsI32(size.width) > 0 /\ AsI32(size.height) > 0

\* AtlasManager::alloc_segment: the size of the texture it asks for
AllocSegmentSize_IgnoresMinimum(has_minimum, minimum_size) == default_size
AllocSegmentSize(has_minimum, minimum_size) ==
    IF has_minimum THEN max_dimension(default_size, minimum_size)
    ELSE default_size

\* AtlasManager::alloc_segment: the segment built around the created texture
AllocSegment(tex, has_minimum, minimum_size) ==
    DynamicSegment(tex, AllocSegmentSize(has_minimum, minimum_size))

\* record of one AtlasSegment::allocate_with_padding call
SegCall(seg, request, r) ==
    [pre |-> seg, request |-> request, result |-> r.result, post |-> r.seg,
     inner_request |-> r.inner_request, inner_result |-> r.inner_result]

\* the segment list after a spill: the new segment is pushed
PushSegment_ReplacesLast(segs, seg) == [segs EXCEPT ![Len(segs)] = seg]
PushSegment(segs, seg) == Append(segs, seg)

\* `self.current_index = self.segments.len() - 1` after the push
NewCurrentIndex_Stale(segs) == Len(segs) - 2
NewCurrentIndex(segs) == Len(segs) - 1

\* `segment` is a mutable borrow of segments[index]: the list after the call
\* made through it
WriteBack_Resets(segs, index, seg) ==
    [segs EXCEPT ![index + 1] = DynamicSegment(seg.texture, seg.size)]
WriteBack(segs, index, seg) == [segs EXCEPT ![index + 1] = seg]

\* AtlasManager::allocate as a function of the manager fields
ManagerAllocate(segs, cur, ntex, request, backend_ok) ==
    LET index == cur
        segment == segs[index + 1]
        first == SegAllocateWithPadding(segment, request, padding)
        \* `segment` is a mutable borrow of segments[index]
        unchanged == [segments |-> WriteBack(segs, index, first.seg),
                      current_index |-> cur, next_texture |-> ntex]
    IN  IF first.result.some
        THEN [segments |-> WriteBack(segs, index, first.seg),
              current_index |-> cur, next_texture |-> ntex,
              ok |-> TRUE, panic |-> FALSE, spilled |-> FALSE, tried |-> index,
              created |-> FALSE,
              handle |-> [index |-> HandleIndex(index),
                          rect |-> RectFrom(first.result.value, request)],
              segcalls |-> <<SegCall(segment, request, first)>>]
        ELSE
        LET minimum == outset(request, padding)
            size == AllocSegmentSize(TRUE, minimum)
        IN  IF ~CreateTextureOk(size, backend_ok)
            THEN unchanged @@
                 [ok |-> FALSE, panic |-> FALSE, spilled |-> FALSE,
                  tried |-> index, created |-> TRUE, handle |-> NoHandle,
                  segcalls |-> <<SegCall(segment, request, first)>>]
            ELSE
            LET fresh == AllocSegment(ntex, TRUE, minimum)
                hindex == HandleIndex(cur)
                second == SegAllocateWithPadding(fresh, request, padding)
                pushed == PushSegment(WriteBack(segs, index, first.seg),
                                      second.seg)
                both == <<SegCall(segment, request, first),
                          SegCall(fresh, request, second)>>
            IN  IF ~second.result.some
                THEN \* expect("this allocation should never fail")
                     unchanged @@
                     [ok |-> FALSE, panic |-> TRUE, spilled |-> FALSE,
                      tried |-> index, created |-> TRUE, handle |-> NoHandle,
                      segcalls |-> both]
                ELSE [segments |-> pushed,
                      current_index |-> NewCurrentIndex(pushed),
                      next_texture |-> ntex + 1,
                      ok |-> TRUE, panic |-> FALSE, spilled |-> TRUE,
                      tried |-> index, created |-> TRUE,
                      handle |-> [index |-> hindex,
                                  rect |-> RectFrom(second.result.value, request)],
                      segcalls |-> both]

\* -------------------------------------------------------------- accessors
\* AtlasManager::get_texture_from_index
GetTextureFromIndex(segs, idx) == segs[idx + 1].texture

\* AtlasManager::get_texture
GetTexture(segs, handle) == GetTextureFromIndex(segs, handle.index - 1)

\* ------------------------------------------------------ texture and blit
\* copy_pixels: bytes per pixel from the bits-per-pixel table, 0 when the
\* match falls through to the unsupported-format error
PixelByteArms ==
    {<<8, 1>>, <<16, 2>>, <<24, 3>>, <<32, 4>>, <<40, 5>>, <<48, 6>>, <<56, 7>>,
     <<64, 8>>, <<72, 9>>, <<80, 10>>, <<88, 11>>, <<96, 12>>, <<104, 13>>,
     <<112, 14>>, <<120, 15>>, <<128, 16>>, <<136, 17>>, <<144, 18>>,
     <<152, 19>>, <<160, 20>>, <<168, 21>>, <<176, 22>>, <<184, 23>>,
     <<192, 24>>, <<200, 25>>, <<208, 26>>, <<216, 27>>, <<224, 28>>,
     <<232, 29>>, <<240, 30>>, <<248, 31>>}
PixelByte_Ceil(bits) == (bits + 7) \div 8
PixelByte(bits) ==
    IF \E arm \in PixelByteArms : arm[1] = bits
    THEN (CHOOSE arm \in PixelByteArms : arm[1] = bits)[2]
    ELSE 0
CopyPixelsOk(format) == PixelByte(BitsPerPixel(format)) # 0

\* copy_pixels on byte buffers, which are functions from 0..(len - 1).
\* the number of bytes of one row: `src_rect.size.width as usize * pixel_byte`
RowBytes_Pixels(width, pixel_byte) == width
RowBytes(width, pixel_byte) == width * pixel_byte

\* copy_nonoverlapping(src_pos, dst_pos, n) between two distinct buffers
CopyNonoverlapping(src, src_pos, dst, dst_pos, n) ==
    [i \in DOMAIN dst |->
        IF i >= dst_pos /\ i < dst_pos + n THEN src[src_pos + (i - dst_pos)]
        ELSE dst[i]]

\* the row loop of copy_pixels, from y_index on
RECURSIVE CopyRows(_, _, _, _, _)
CopyRows(src, dst, a, pixel_byte, y_index) ==
    IF ~(y_index < a.src_rect.size.height) THEN dst
    ELSE
    LET src_line == (a.src_rect.position.y + y_index) * a.src_pitch
        dst_line == (a.dst_pos.y + y_index) * a.dst_pitch
        src_pos == src_line + a.src_rect.position.x * pixel_byte
        dst_pos == dst_line + a.dst_pos.x * pixel_byte
    IN  CopyRows(src,
                 CopyNonoverlapping(src, src_pos, dst, dst_pos,
                                    RowBytes(a.src_rect.size.width, pixel_byte)),
                 a, pixel_byte, y_index + 1)

\* copy_pixels(src, src_rect, src_pitch, dst, dst_pos, dst_pitch, format),
\* a.bits being SDL_BITSPERPIXEL(format): the result and dst after the call
CopyPixels(src, dst, a) ==
    LET pixel_byte == PixelByte(a.bits)
    IN  IF pixel_byte = 0
        THEN [ok |-> FALSE, error |-> "unsupported format", dst |-> dst]
        ELSE [ok |-> TRUE, error |-> "",
              dst |-> CopyRows(src, dst, a, pixel_byte, 0)]

\* TryFrom<Rect> for SDL_Rect: every field must fit the signed type
TryIntoSdlRect(rect) ==
    /\ rect.position.x <= I32Max /\ rect.position.y <= I32Max
    /\ rect.size.width <= I32Max /\ rect.size.height <= I32Max

\* Texture::lock: "ok", or the error it returns; lock_ok is the backend's answer
LockOutcome(rect, lock_ok) ==
    IF ~TryIntoSdlRect(rect) THEN "try_from_int"
    ELSE IF ~lock_ok THEN "lock" ELSE "ok"

Ev(ev, texture, rect, source, ok) ==
    [ev |-> ev, texture |-> texture, rect |-> rect, source |-> source, ok |-> ok]

\* Drop for LockedTextureGuard: SDL_UnlockTexture on the guard's texture
DropGuard_Leaks(texture, rect) == <<>>
DropGuard(texture, rect) == <<Ev("unlock", texture, rect, 0, TRUE)>>

\* results of the upload calls
ResOk(handle) == [ok |-> TRUE, handle |-> handle, error |-> ""]
ResErr(error) == [ok |-> FALSE, handle |-> NoHandle, error |-> error]
\* (sources: the surfaces the call was given)
Return(op, sources, res, results) ==
    [op |-> op, sources |-> sources, ok |-> res.ok, handle |-> res.handle,
     error |-> res.error, results |-> results]
AllocError(r) == IF r.panic THEN "panic" ELSE "create texture"

\* allocate_then_copy_surface after its allocate call returned r: lock the
\* handle's rect on the handle's texture, blit at (0,0), drop the guard
CopySurface(r, source_rect, lock_ok) ==
    IF ~r.ok THEN [res |-> ResErr(AllocError(r)), events |-> <<>>, asked |-> FALSE]
    ELSE
    LET handle == r.handle
        dst_texture == GetTexture(r.segments, handle)
        outcome == LockOutcome(handle.rect, lock_ok)
        dst == RectFrom(PointNew(0, 0), source_rect.size)
    IN  IF outcome # "ok"
        THEN [res |-> ResErr(outcome),
              events |-> <<Ev("lock", dst_texture, handle.rect, 0, FALSE)>>,
              asked |-> outcome = "lock"]
        ELSE [res |-> IF CopyPixelsOk(pixel_format) THEN ResOk(handle)
                      ELSE ResErr("unsupported format"),
              events |-> <<Ev("lock", dst_texture, handle.rect, 0, TRUE),
                           Ev("blit", dst_texture, dst, 1,
                              CopyPixelsOk(pixel_format))>>
                         \o DropGuard(dst_texture, handle.rect),
              asked |-> TRUE]

\* the history field of the segments after allocate_then_copy_surface: when
\* allocate returned a handle and the upload an error, `?` drops the handle,
\* whose rectangle stays allocated on the segment current after the call
\* (the record of the call on that segment carries the same history)
Dropped(r, up, returned) ==
    IF r.ok /\ ~up.res.ok
    THEN LET entry == [rect |-> r.handle.rect, after |-> returned]
         IN  [r EXCEPT !.segments[r.current_index + 1].lost = Append(@, entry),
                       !.segcalls[Len(r.segcalls)].post.lost = Append(@, entry)]
    ELSE r

\* ------------------------------------------------- batched upload helpers
\* n is sources.len() and segment_idx the position of the blit loop.  Three
\* fields are history, not locals of the source: placed holds, for each
\* source taken so far, the texture of the segment its rectangle was
\* allocated on (0 when none was); entry is the manager at the call; answers
\* holds, for each source taken so far, what the backend answered (or would
\* have answered) to the creation of a texture
NoManager == [segments |-> <<>>, current_index |-> 0, next_texture |-> 0]
NoBatch == [n |-> 0, sources |-> <<>>, results |-> <<>>,
            segment_groups |-> <<>>, segment_idx |-> 0, placed |-> <<>>,
            entry |-> NoManager, answers |-> <<>>]

\* the texture of the segment on which a successful allocate call placed
\* its rectangle: the segment of its last allocate_with_padding call
PlacedOn(r) == IF r.ok THEN r.segcalls[Len(r.segcalls)].post.texture ELSE 0

\* segment_groups.resize_with(len, Vec::new)
ResizeGroups(groups, len) ==
    [k \in 1..len |-> IF k <= Len(groups) THEN groups[k] ELSE <<>>]

\* segment_groups after pushing (i, handle) to the group of the handle's index
PushToGroup(groups, i, handle) ==
    LET segment_idx == handle.index - 1
        resized == IF segment_idx >= Len(groups)
                   THEN ResizeGroups(groups, segment_idx + 1) ELSE groups
    IN  [resized EXCEPT ![segment_idx + 1] =
            Append(@, [i |-> i, handle |-> handle])]

SetMin(S) == CHOOSE m \in S : \A x \in S : m <= x
SetMax(S) == CHOOSE m \in S : \A x \in S : m >= x

\* the bounding box computed over the handles of one group
BoundingBox_FirstOnly(group) == group[1].handle.rect
BoundingBox(group) ==
    LET rects == {group[k].handle.rect : k \in 1..Len(group)}
        min_x == SetMin({UnitMax} \cup {r.position.x : r \in rects})
        min_y == SetMin({UnitMax} \cup {r.position.y : r \in rects})
        max_x == SetMax({0} \cup {r.position.x + r.size.width : r \in rects})
        max_y == SetMax({0} \cup {r.position.y + r.size.height : r \in rects})
    IN  RectFrom(PointNew(min_x, min_y), SizeNew(max_x - min_x, max_y - min_y))

\* the first non-empty group at or after segment_idx (1-based), 0 if none
NextGroup(b) ==
    LET S == {k \in (b.segment_idx + 1)..Len(b.segment_groups) :
                 b.segment_groups[k] # <<>>}
    IN  IF S = {} THEN 0 ELSE SetMin(S)

\* the blits of one locked group: one event per (orig_idx, handle)
GroupBlits(texture, group, bbox) ==
    [k \in 1..Len(group) |->
        Ev("blit", texture,
           RectFrom(PointNew(group[k].handle.rect.position.x - bbox.position.x,
                             group[k].handle.rect.position.y - bbox.position.y),
                    group[k].handle.rect.size),
           group[k].i, CopyPixelsOk(pixel_format))]

\* results after the blit pass of one group
GroupResults_Unchanged(results, group, outcome) == results
GroupResults(results, group, outcome) ==
    [i \in 1..Len(results) |->
        IF \E k \in 1..Len(group) : group[k].i = i
        THEN IF outcome # "ok" THEN ResErr(outcome)
             ELSE IF ~CopyPixelsOk(pixel_format) THEN ResErr("unsupported format")
             ELSE results[i]
        ELSE results[i]]

\* `results[i] = res`
SetResult_Never(results, i, res) == results
SetResult_Every(results, i, res) == [k \in 1..Len(results) |-> res]
SetResult(results, i, res) == [results EXCEPT ![i] = res]

\* the handles of the Ok slots, in slot order
RECURSIVE OkHandles(_)
OkHandles(results) ==
    IF results = <<>> THEN <<>>
    ELSE (IF Head(results).ok THEN <<Head(results).handle>> ELSE <<>>)
         \o OkHandles(Tail(results))

\* --------------------------------------------------------------- Renderer
\* render targets: the null target (the window) and the target textures
NullTarget == 0
Targets == 0..MaxTargets

\* A Renderer whose render target is `target` and that has no live guard.
\* guards holds the live RenderTargetGuards in order of acquisition, each with
\* its old_target.  The other fields are history, not in the source:
\* `texture` of a guard is the target its acquisition set; calls counts the
\* set_render_target calls; base is the target before the first acquisition
\* of the guards taken since no guard was live, depth the largest number of
\* them live at once; nested says they were released in reverse order of
\* acquisition so far, restored that the backend performed every restore;
\* call is the latest call.
RendererAt(target) ==
    [target |-> target, guards |-> <<>>, calls |-> 0, base |-> target,
     depth |-> 0, nested |-> TRUE, restored |-> TRUE,
     call |-> [op |-> "new", ok |-> TRUE, before |-> target, guards |-> <<>>,
               old_target |-> NullTarget]]

\* `let old_target = SDL_GetRenderTarget(renderer)`
OldTarget_Null(r) == NullTarget
OldTarget(r) == r.target

\* Renderer::set_render_target(texture).  SDL_SetRenderTarget either makes
\* texture the target and returns true, or returns false and leaves the
\* target as it was; only on true is a guard built.
SetRenderTargetOn(r, texture, backend_ok) ==
    LET old_target == OldTarget(r)
        call == [op |-> "set_render_target", ok |-> backend_ok,
                 before |-> r.target, guards |-> r.guards,
                 old_target |-> old_target]
        fresh == r.guards = <<>>
    IN  IF ~backend_ok
        THEN [r EXCEPT !.calls = @ + 1, !.call = call]
        ELSE [r EXCEPT !.target = texture,
                       !.guards = Append(@, [old_target |-> old_target,
                                             texture |-> texture]),
                       !.calls = @ + 1,
                       !.base = IF fresh THEN r.target ELSE @,
                       !.depth = IF fresh THEN 1 ELSE Max(@, Len(r.guards) + 1),
                       !.nested = IF fresh THEN TRUE ELSE @,
                       !.restored = IF fresh THEN TRUE ELSE @,
                       !.call = call]

\* Drop for RenderTargetGuard, of the k-th live guard: SDL_SetRenderTarget
\* (renderer, old_target), whose return value is not looked at
DropRenderTargetGuard(r, k, backend_ok) ==
    LET guard == r.guards[k]
    IN  [r EXCEPT !.target = IF backend_ok THEN guard.old_target ELSE @,
                  !.guards = SubSeq(r.guards, 1, k - 1)
                             \o SubSeq(r.guards, k + 1, Len(r.guards)),
                  !.nested = @ /\ k = Len(r.guards),
                  !.restored = @ /\ backend_ok,
                  !.call = [op |-> "drop", ok |-> backend_ok,
                            before |-> r.target, guards |-> r.guards,
                            old_target |-> guard.old_target]]

\* ------------------------------------------------- calls without a state
NoCall == [op |-> "none", returned |-> FALSE]

\* ------------------------------------------------------------------- Init
NoAlloc == [op |-> "empty", request |-> SizeNew(0, 0), ok |-> TRUE,
            handle |-> NoHandle, spilled |-> FALSE, tried |-> 0,
            segcalls |-> <<>>]

\* AtlasManager::empty succeeded: one Dynamic segment of default_size
Init ==
    /\ padding \in Paddings
    /\ default_size \in {SizeNew(w, MaxDefault) : w \in DefaultDims}
    /\ pixel_format \in Formats
    /\ pixel_format = "INDEX4" => (padding = 0 /\ default_size.width = MaxDefault)
    /\ CreateTextureOk(default_size, TRUE)
    /\ segments = <<AllocSegment(1, FALSE, SizeNew(0, 0))>>
    /\ current_index = 0
    /\ next_texture = 2
    /\ submitted = 0
    /\ pc = "idle"
    /\ batch = NoBatch
    /\ events = <<>>
    /\ handles = <<>>
    /\ last = NoAlloc
    /\ ret = Return("empty", <<>>, ResOk(NoHandle), <<>>)
    /\ panicked = FALSE
    /\ renderer = RendererAt(NullTarget)
    /\ invocation = NoCall

\* ---------------------------------------------------------------- actions
\* the manager fields and the call record after a call to allocate
ApplyAllocate(op, request, r) ==
    /\ segments' = r.segments
    /\ current_index' = r.current_index
    /\ next_texture' = r.next_texture
    /\ panicked' = r.panic
    /\ last' = [op |-> op, request |-> request, ok |-> r.ok,
                handle |-> r.handle, spilled |-> r.spilled, tried |-> r.tried,
                segcalls |-> r.segcalls]

\* AtlasManager::allocate(renderer, request)
Allocate ==
    /\ pc = "idle" /\ ~panicked /\ submitted < MaxSubmitted
    /\ \E request \in Requests, backend_ok \in BOOLEAN :
        \E r \in {ManagerAllocate(segments, current_index, next_texture,
                                  request, backend_ok)} :
            /\ r.created \/ backend_ok
            /\ ApplyAllocate("allocate", request, r)
            /\ handles' = IF r.ok THEN Append(handles, r.handle) ELSE handles
            /\ ret' = Return("allocate", <<>>,
                             IF r.ok THEN ResOk(r.handle) ELSE ResErr(AllocError(r)),
                             <<>>)
    /\ submitted' = submitted + 1
    /\ UNCHANGED <<config, pc, batch, events, renderer, invocation>>

\* AtlasManager::allocate_then_copy_surface(renderer, source, source_rect)
AllocateThenCopySurface ==
    /\ pc = "idle" /\ ~panicked /\ submitted < MaxSubmitted
    /\ \E source \in Surfaces, backend_ok \in BOOLEAN, lock_ok \in BOOLEAN :
       \E opt \in SourceRects(source) :
        IF FormatMismatch(source)
        THEN /\ backend_ok /\ lock_ok /\ ~opt.some
             /\ ret' = Return("allocate_then_copy_surface", <<source>>,
                              ResErr("format mismatch"), <<>>)
             /\ events' = <<>>
             /\ UNCHANGED <<manager, handles, last, panicked>>
        ELSE
        LET source_size == SurfaceSize(source)
            source_rect == IF opt.some THEN opt.rect
                           ELSE RectFrom(PointNew(0, 0), source_size)
        IN  \E r \in {ManagerAllocate(segments, current_index, next_texture,
                                      source_rect.size, backend_ok)} :
            \E up \in {CopySurface(r, source_rect, lock_ok)} :
                /\ r.created \/ backend_ok
                /\ up.asked \/ lock_ok
                /\ ApplyAllocate("allocate_then_copy_surface", source_rect.size,
                                 Dropped(r, up, Len(handles)))
                /\ events' = up.events
                /\ ret' = Return("allocate_then_copy_surface", <<source>>,
                                 up.res, <<>>)
                /\ handles' = IF up.res.ok THEN Append(handles, up.res.handle)
                              ELSE handles
    /\ submitted' = submitted + 1
    /\ UNCHANGED <<config, pc, batch, renderer, invocation>>

\* allocate_then_copy_surfaces: entry, the results and groups it sets up
BatchBegin ==
    /\ pc = "idle" /\ ~panicked /\ submitted < MaxSubmitted
    /\ \E n \in 0..Min(MaxBatch, MaxSubmitted - submitted) :
        /\ batch' = [n |-> n, sources |-> <<>>,
                     results |-> [i \in 1..n |-> ResErr("pending")],
                     segment_groups |-> [k \in 1..Len(segments) |-> <<>>],
                     segment_idx |-> 0, placed |-> <<>>,
                     entry |-> [segments |-> segments,
                                current_index |-> current_index,
                                next_texture |-> next_texture],
                     answers |-> <<>>]
        /\ submitted' = submitted + Max(1, n)
    /\ pc' = "batch"
    /\ events' = <<>>
    /\ UNCHANGED <<config, manager, handles, last, ret, panicked, renderer, invocation>>

\* allocate_then_copy_surfaces: one iteration of the allocation pass
BatchAllocate ==
    /\ pc = "batch" /\ ~panicked /\ Len(batch.sources) < batch.n
    /\ \E source \in Surfaces, backend_ok \in BOOLEAN :
        LET i == Len(batch.sources) + 1
            taken == [batch EXCEPT !.sources = Append(@, source),
                                   !.answers = Append(@, backend_ok)]
        IN  IF FormatMismatch(source)
            THEN /\ backend_ok
                 /\ batch' = [taken EXCEPT
                        !.results = SetResult(@, i, ResErr("format mismatch")),
                        !.placed = Append(@, 0)]
                 /\ UNCHANGED <<manager, last, panicked>>
            ELSE
            \E r \in {ManagerAllocate(segments, current_index, next_texture,
                                      SurfaceSize(source), backend_ok)} :
                /\ r.created \/ backend_ok
                /\ ApplyAllocate("allocate_then_copy_surfaces",
                                 SurfaceSize(source), r)
                /\ batch' =
                     IF r.ok
                     THEN [taken EXCEPT
                            !.segment_groups = PushToGroup(@, i, r.handle),
                            !.results = SetResult(@, i, ResOk(r.handle)),
                            !.placed = Append(@, PlacedOn(r))]
                     ELSE [taken EXCEPT
                            !.results = SetResult(@, i, ResErr(AllocError(r))),
                            !.placed = Append(@, PlacedOn(r))]
    /\ UNCHANGED <<config, submitted, pc, events, handles, ret, renderer, invocation>>

\* allocate_then_copy_surfaces: the blit pass of the next non-empty group
BatchBlit ==
    /\ pc = "batch" /\ ~panicked /\ Len(batch.sources) = batch.n
    /\ NextGroup(batch) # 0
    /\ \E lock_ok \in BOOLEAN :
        LET g == NextGroup(batch)
            segment_idx == g - 1
            group == batch.segment_groups[g]
            texture == GetTextureFromIndex(segments, segment_idx)
            bbox == BoundingBox(group)
            outcome == LockOutcome(bbox, lock_ok)
        IN  /\ outcome = "try_from_int" => lock_ok
            /\ events' =
                 IF outcome # "ok"
                 THEN Append(events, Ev("lock", texture, bbox, 0, FALSE))
                 ELSE events \o <<Ev("lock", texture, bbox, 0, TRUE)>>
                      \o GroupBlits(texture, group, bbox)
                      \o DropGuard(texture, bbox)
            /\ batch' = [batch EXCEPT
                    !.results = GroupResults(@, group, outcome),
                    !.segment_idx = g]
    /\ UNCHANGED <<config, manager, submitted, pc, handles, last, ret, panicked,
                   renderer, invocation>>

\* allocate_then_copy_surfaces: no group is left, return the results
BatchReturn ==
    /\ pc = "batch" /\ ~panicked /\ Len(batch.sources) = batch.n
    /\ NextGroup(batch) = 0
    /\ ret' = Return("allocate_then_copy_surfaces", batch.sources,
                     ResOk(NoHandle), batch.results)
    /\ handles' = handles \o OkHandles(batch.results)
    /\ pc' = "idle"
    /\ batch' = NoBatch
    /\ UNCHANGED <<config, manager, submitted, events, last, panicked, renderer, invocation>>

Next ==
    \/ Allocate
    \/ AllocateThenCopySurface
    \/ BatchBegin
    \/ BatchAllocate
    \/ BatchBlit
    \/ BatchReturn

Spec == Init /\ [][Next]_vars

\* ------------------------------------------- the Renderer, on its own
\* a manager that was just built, and a renderer with any render target
RenderInit ==
    /\ padding = 0
    /\ default_size = SizeNew(MaxDefault, MaxDefault)
    /\ pixel_format = "RGBA32"
    /\ segments = <<AllocSegment(1, FALSE, SizeNew(0, 0))>>
    /\ current_index = 0
    /\ next_texture = 2
    /\ submitted = 0
    /\ pc = "idle"
    /\ batch = NoBatch
    /\ events = <<>>
    /\ handles = <<>>
    /\ last = NoAlloc
    /\ ret = Return("empty", <<>>, ResOk(NoHandle), <<>>)
    /\ panicked = FALSE
    /\ renderer \in {RendererAt(t) : t \in Targets}
    /\ invocation = NoCall

\* Renderer::set_render_target(texture)
SetRenderTarget ==
    /\ renderer.calls < MaxAcquire
    /\ \E texture \in Targets \ {NullTarget}, backend_ok \in BOOLEAN :
        renderer' = SetRenderTargetOn(renderer, texture, backend_ok)
    /\ UNCHANGED <<atlas, invocation>>

\* a live RenderTargetGuard is dropped
DropGuardOfRenderer ==
    /\ \E k \in 1..Len(renderer.guards), backend_ok \in BOOLEAN :
        /\ renderer' = DropRenderTargetGuard(renderer, k, backend_ok)
    /\ UNCHANGED <<atlas, invocation>>

RenderNext ==
    \/ SetRenderTarget
    \/ DropGuardOfRenderer

RenderSpec == RenderInit /\ [][RenderNext]_vars

\* ---------------------------------------------------- copy_pixels, on its own
\* SDL_BITSPERPIXEL is one byte of the format value
BitsValues == 0..255
\* the arguments of a call: rectangles up to MaxCopy wide and high at offsets
\* up to MaxOffset and any pitch up to MaxPitch for one and two bytes per
\* pixel, one pixel at the origin for any other bits-per-pixel value
CopyArgs(bits) ==
    IF bits \in {8, 16}
    THEN {[bits |-> bits,
           src_rect |-> RectFrom(PointNew(sx, sy), SizeNew(w, h)),
           src_pitch |-> sp, dst_pos |-> PointNew(dx, dy), dst_pitch |-> dp] :
            sx \in 0..MaxOffset, sy \in 0..MaxOffset,
            w \in 0..MaxCopy, h \in 0..MaxCopy,
            dx \in 0..MaxOffset, dy \in 0..MaxOffset,
            sp \in 0..MaxPitch, dp \in 0..MaxPitch}
    ELSE {[bits |-> bits,
           src_rect |-> RectFrom(PointNew(0, 0), SizeNew(1, 1)),
           src_pitch |-> MaxPitch, dst_pos |-> PointNew(0, 0),
           dst_pitch |-> MaxPitch]}
\* a buffer large enough for every byte the call can touch, and one more;
\* the source holds a different value in every byte, the destination zeros
BufferLen(a) ==
    (MaxOffset + a.src_rect.size.height) * MaxPitch
    + (MaxOffset + a.src_rect.size.width) * 32 + 1
SrcBuffer(a) == [i \in 0..(BufferLen(a) - 1) |-> i + 1]
DstBuffer(a) == [i \in 0..(BufferLen(a) - 1) |-> 0]

CopyInit ==
    /\ padding = 0
    /\ default_size = SizeNew(MaxDefault, MaxDefault)
    /\ pixel_format = "RGBA32"
    /\ segments = <<AllocSegment(1, FALSE, SizeNew(0, 0))>>
    /\ current_index = 0
    /\ next_texture = 2
    /\ submitted = 0
    /\ pc = "idle"
    /\ batch = NoBatch
    /\ events = <<>>
    /\ handles = <<>>
    /\ last = NoAlloc
    /\ ret = Return("empty", <<>>, ResOk(NoHandle), <<>>)
    /\ panicked = FALSE
    /\ renderer = RendererAt(NullTarget)
    /\ \E bits \in BitsValues : \E a \in CopyArgs(bits) :
        invocation = [op |-> "copy_pixels", returned |-> FALSE, args |-> a]

\* copy_pixels runs on the arguments of the call
CallCopyPixels ==
    /\ invocation.op = "copy_pixels" /\ ~invocation.returned
    /\ \E a \in {invocation.args} :
        \E r \in {CopyPixels(SrcBuffer(a), DstBuffer(a), a)} :
            invocation' = [op |-> "copy_pixels", returned |-> TRUE, args |-> a,
                           src |-> SrcBuffer(a), before |-> DstBuffer(a),
                           ok |-> r.ok, error |-> r.error, dst |-> r.dst]
    /\ UNCHANGED <<atlas, renderer>>

CopyNext == CallCopyPixels

CopySpec == CopyInit /\ [][CopyNext]_vars

\* ----------------------------------- AtlasSegment::allocate_with_padding
\* as a function of the segment, the request and the padding.  The texture is
\* one the backend can hold (each side in 1..I32Max); the cursor, the request
\* and the padding range over the field's type, PointUnit, by its small, its
\* middle and its largest values (a manager keeps the cursor inside the
\* texture; the function itself takes any).
TextureDims == {1, 2, I32Max}
CursorUnits == {0, 1, I32Max, UnitMax - 1, UnitMax}
LineHeights == {0, 1, I32Max, UnitMax}
RequestUnits == {0, 1, 2, I32Max, UnitMax}
PaddingUnits == {0, 1, I32Max, I32Max + 1, UnitMax}
SegmentAt(size, pen, line_height) ==
    [DynamicSegment(1, size) EXCEPT !.current_position = pen,
                                    !.current_line_height = line_height]

PadInit ==
    /\ padding = 0
    /\ default_size = SizeNew(MaxDefault, MaxDefault)
    /\ pixel_format = "RGBA32"
    /\ segments = <<AllocSegment(1, FALSE, SizeNew(0, 0))>>
    /\ current_index = 0
    /\ next_texture = 2
    /\ submitted = 0
    /\ pc = "idle"
    /\ batch = NoBatch
    /\ events = <<>>
    /\ handles = <<>>
    /\ last = NoAlloc
    /\ ret = Return("empty", <<>>, ResOk(NoHandle), <<>>)
    /\ panicked = FALSE
    /\ renderer = RendererAt(NullTarget)
    /\ \E W \in TextureDims, H \in TextureDims, x \in CursorUnits,
          y \in CursorUnits, lh \in LineHeights, w \in RequestUnits,
          h \in RequestUnits, p \in PaddingUnits :
        invocation = [op |-> "allocate_with_padding", returned |-> FALSE,
                      seg |-> SegmentAt(SizeNew(W, H), PointNew(x, y), lh),
                      request |-> SizeNew(w, h), padding |-> p]

\* segment.allocate_with_padding(request, padding), and the rect of the
\* handle AtlasManager::allocate builds from a Some: (allocated, request)
CallAllocateWithPadding ==
    /\ invocation.op = "allocate_with_padding" /\ ~invocation.returned
    /\ \E r \in {SegAllocateWithPadding(invocation.seg, invocation.request,
                                        invocation.padding)} :
        invocation' = [invocation EXCEPT !.returned = TRUE] @@
                      [result |-> r.result, post |-> r.seg,
                       inner_request |-> r.inner_request,
                       inner_result |-> r.inner_result,
                       rect |-> RectFrom(r.result.value, invocation.request)]
    /\ UNCHANGED <<atlas, renderer>>

PadNext == CallAllocateWithPadding

PadSpec == PadInit /\ [][PadNext]_vars

\* ------------------------------------------------- AtlasManager::render
\* render(renderer, handle, dst): the texture named by the handle is drawn
\* with the handle's rect as source; draw_ok is what SDL_RenderTexture
\* returns, which the call does not look at
RenderTexture(segs, handle, draw_ok) ==
    [op |-> "render", returned |-> TRUE, handle |-> handle,
     texture |-> GetTexture(segs, handle), src |-> handle.rect,
     drawn |-> draw_ok, ok |-> TRUE]

\* render is called with a handle this manager returned
Render ==
    /\ pc = "idle" /\ ~panicked
    /\ \E k \in 1..Len(handles), draw_ok \in BOOLEAN :
        invocation' = RenderTexture(segments, handles[k], draw_ok)
    /\ UNCHANGED <<atlas, renderer>>

DrawNext == Allocate \/ Render

DrawSpec == Init /\ [][DrawNext]_vars

\* ------------------------------------------------------- claim vocabulary
AllocOps ==
    {"allocate", "allocate_then_copy_surface", "allocate_then_copy_surfaces"}
Pixels(rect) ==
    {<<x, y>> : x \in rect.position.x..(rect.position.x + rect.size.width - 1),
                y \in rect.position.y..(rect.position.y + rect.size.height - 1)}
\* the request as padded by the manager, over unbounded integers capped at
\* the largest PointUnit
PaddedWidth(request) == Min(UnitMax, request.width + 2 * padding)
PaddedHeight(request) == Min(UnitMax, request.height + 2 * padding)
ExceedsDefault(request) ==
    \/ PaddedWidth(request) > default_size.width
    \/ PaddedHeight(request) > default_size.height
LastSegment == segments[Len(segments)]

\* C1: any two distinct handles returned with the same index have inner
\* rectangles that share no pixel.
C1_NoOverlap ==
    \A i, j \in 1..Len(handles) :
        (i < j /\ handles[i].index = handles[j].index)
            => Pixels(handles[i].rect) \cap Pixels(handles[j].rect) = {}

\* C2: every returned handle's rect, expanded by padding on all four sides,
\* lies inside the texture of segments[handle.index - 1].
C2_PaddedInBounds ==
    \A i \in 1..Len(handles) :
        LET h == handles[i]
            size == segments[(h.index - 1) + 1].size
        IN  /\ h.rect.position.x - padding >= 0
            /\ h.rect.position.y - padding >= 0
            /\ h.rect.position.x + h.rect.size.width + padding <= size.width
            /\ h.rect.position.y + h.rect.size.height + padding <= size.height

\* C3: when allocate spills, the returned handle names the segment that was
\* just pushed: handle.index - 1 is the new current_index.
C3_SpillHandleNamesNewSegment ==
    (last.op \in AllocOps /\ last.ok /\ last.spilled)
        => /\ last.handle.index - 1 = current_index
           /\ last.handle.index - 1 = Len(segments) - 1

\* C4: every returned handle has index >= 1 and index - 1 is a valid segment
\* index, in the state of return and in every later state.
C4_HandleIndexValid ==
    \A i \in 1..Len(handles) :
        /\ handles[i].index >= 1
        /\ handles[i].index - 1 \in 0..(Len(segments) - 1)
C4_Witness ==
    /\ Len(handles) >= 3
    /\ Len(segments) >= 2
    /\ \E i \in 1..Len(handles) : handles[i].index = 1

\* C5: the segment list is append-only: its length never decreases, the
\* texture, size and kind at every existing index never change, and
\* get_texture of every returned handle stays the same.
C5_AppendOnly ==
    [][/\ Len(segments') >= Len(segments)
       /\ \A i \in 1..Len(segments) :
            /\ segments'[i].texture = segments[i].texture
            /\ segments'[i].size = segments[i].size
            /\ segments'[i].kind = segments[i].kind
       /\ \A i \in 1..Len(handles) :
            GetTexture(segments', handles[i]) = GetTexture(segments, handles[i])
      ]_vars
C5_Witness ==
    /\ Len(segments) >= 3
    /\ Len(handles) >= 2
    /\ \A i, j \in 1..Len(segments) :
        i # j => segments[i].texture # segments[j].texture

\* C6: current_index is valid, is the index of the most recently created
\* segment, that segment is Dynamic, and it is the segment an allocate call
\* tries first.
C6_CurrentIsNewest ==
    /\ current_index \in 0..(Len(segments) - 1)
    /\ current_index = Len(segments) - 1
    /\ segments[current_index + 1].kind = "Dynamic"
    /\ \A i \in 1..Len(segments) :
        segments[i].texture <= segments[current_index + 1].texture
    /\ last.op \in AllocOps =>
        /\ last.tried = Len(segments) - 1 - (IF last.spilled THEN 1 ELSE 0)
        /\ last.segcalls[1].pre.texture = segments[last.tried + 1].texture
C6_Witness ==
    /\ last.op \in AllocOps /\ last.spilled /\ Len(segments) >= 3

\* C7: on a spill the new segment's size is the per-axis maximum of
\* default_size and the padded request, and the allocation retried on the
\* fresh segment never fails when the texture was created.
C7_SpillSegmentFits ==
    /\ ~panicked
    /\ (last.op \in AllocOps /\ last.spilled) =>
        /\ LastSegment.size.width =
              Max(default_size.width, PaddedWidth(last.request))
        /\ LastSegment.size.height =
              Max(default_size.height, PaddedHeight(last.request))
        /\ Len(last.segcalls) = 2
        /\ last.segcalls[2].result.some
C7_Witness ==
    /\ last.op \in AllocOps /\ last.spilled
    /\ PaddedWidth(last.request) > default_size.width
    /\ PaddedHeight(last.request) < default_size.height

\* C8 as stated: a successful allocate call whose padded request exceeds
\* default_size in width or height produces a new segment, at least as large
\* as the padded request in both axes.
C8_OversizeAlwaysSpills ==
    (last.op \in AllocOps /\ last.ok /\ ExceedsDefault(last.request))
        => /\ last.spilled
           /\ LastSegment.size.width >= PaddedWidth(last.request)
           /\ LastSegment.size.height >= PaddedHeight(last.request)

\* C8 amended: a successful allocate call whose padded request exceeds
\* default_size in width or height leaves the allocation on a current
\* segment at least as large as the padded request in both axes, and that
\* segment is a new one whenever the segment that was current is smaller
\* than the padded request in width or height.
C8_OversizeSegmentLargeEnough ==
    (last.op \in AllocOps /\ last.ok /\ ExceedsDefault(last.request))
        => /\ segments[current_index + 1].size.width >= PaddedWidth(last.request)
           /\ segments[current_index + 1].size.height >= PaddedHeight(last.request)
           /\ last.segcalls[Len(last.segcalls)].post = segments[current_index + 1]
           /\ (\/ last.segcalls[1].pre.size.width < PaddedWidth(last.request)
               \/ last.segcalls[1].pre.size.height < PaddedHeight(last.request))
                => /\ last.spilled
                   /\ Len(segments) = last.tried + 2
C8_Witness ==
    /\ last.op \in AllocOps /\ last.ok /\ ExceedsDefault(last.request)
    /\ ~last.spilled
    /\ Len(segments) >= 2

\* The four-step shelf rule over unbounded integers, for a segment of size
\* (W, H), cursor (pen, line_height) and request (w, h).
ShelfRule(W, H, pen, line_height, w, h) ==
    IF h > H \/ w > W
    THEN [some |-> FALSE, origin |-> pen, pen |-> pen, line_height |-> line_height]
    ELSE IF pen.y + h > H
    THEN [some |-> FALSE, origin |-> pen, pen |-> pen, line_height |-> line_height]
    ELSE IF pen.x + w <= W
    THEN [some |-> TRUE, origin |-> pen,
          pen |-> [x |-> pen.x + w, y |-> pen.y],
          line_height |-> IF line_height >= h THEN line_height ELSE h]
    ELSE IF pen.y + line_height + h > H
    THEN [some |-> FALSE, origin |-> pen, pen |-> pen, line_height |-> line_height]
    ELSE [some |-> TRUE, origin |-> [x |-> 0, y |-> pen.y + line_height],
          pen |-> [x |-> w, y |-> pen.y + line_height],
          line_height |-> h]

\* C9: every AtlasSegment::allocate call on a Dynamic segment returns the
\* result of the four-step shelf rule and, when it succeeds, leaves the
\* cursor that rule prescribes.
C9_ShelfRule ==
    \A k \in 1..Len(last.segcalls) :
        LET c == last.segcalls[k]
            rule == ShelfRule(c.pre.size.width, c.pre.size.height,
                              c.pre.current_position, c.pre.current_line_height,
                              c.inner_request.width, c.inner_request.height)
        IN  c.pre.kind = "Dynamic" =>
            /\ c.inner_result.some = rule.some
            /\ rule.some =>
                /\ c.inner_result.value = rule.origin
                /\ c.post.current_position = rule.pen
                /\ c.post.current_line_height = rule.line_height
\* a next-line fit below a line that holds rectangles of different heights
C9_Witness ==
    \E k \in 1..Len(last.segcalls) :
        LET c == last.segcalls[k]
        IN  /\ c.inner_result.some
            /\ c.inner_result.value.y > c.pre.current_position.y
            /\ c.pre.current_line_height > c.inner_request.height
            /\ c.pre.current_position.x > 0

\* C10: whenever AtlasSegment::allocate or allocate_with_padding returns
\* None, the segment's cursor is what it was before the call.
C10_FailureKeepsCursor ==
    \A k \in 1..Len(last.segcalls) :
        LET c == last.segcalls[k]
        IN  ~c.result.some =>
            /\ ~c.inner_result.some
            /\ c.post.current_position = c.pre.current_position
            /\ c.post.current_line_height = c.pre.current_line_height
            /\ c.post = c.pre
\* the failure is found only after the next-line advance was computed
C10_Witness ==
    \E k \in 1..Len(last.segcalls) :
        LET c == last.segcalls[k]
        IN  /\ ~c.result.some
            /\ c.inner_request.width <= c.pre.size.width
            /\ c.inner_request.height <= c.pre.size.height
            /\ c.pre.current_position.y + c.inner_request.height <= c.pre.size.height
            /\ c.pre.current_position.x + c.inner_request.width > c.pre.size.width
            /\ c.pre.current_line_height > 0

\* an allocation of non-zero width and non-zero height succeeded on seg
Occupied(seg) ==
    \E k \in 1..Len(seg.allocated) :
        seg.allocated[k].size.width > 0 /\ seg.allocated[k].size.height > 0

\* C11 as stated: an AtlasSegment::allocate call whose request equals the
\* Dynamic segment's size succeeds when no allocation has yet succeeded on
\* the segment and fails after any earlier allocation has succeeded on it.
C11_FullSizeOnlyOnFresh ==
    \A k \in 1..Len(last.segcalls) :
        LET c == last.segcalls[k]
        IN  (c.pre.kind = "Dynamic" /\ c.inner_request = c.pre.size)
                => (c.inner_result.some <=> c.pre.allocated = <<>>)

\* C11 amended: an AtlasSegment::allocate call whose request equals the
\* Dynamic segment's size succeeds, at the origin, when no allocation has yet
\* succeeded on the segment, and fails after an earlier allocation of
\* non-zero width and non-zero height has succeeded on it.
C11_FullSizeOnlyOnUnoccupied ==
    \A k \in 1..Len(last.segcalls) :
        LET c == last.segcalls[k]
        IN  (c.pre.kind = "Dynamic" /\ c.inner_request = c.pre.size)
                => /\ c.pre.allocated = <<>> =>
                        /\ c.inner_result.some
                        /\ c.inner_result.value = PointNew(0, 0)
                   /\ Occupied(c.pre) => ~c.inner_result.some
\* a full-size request refused on a segment whose only earlier allocation is
\* smaller than the segment in both axes
C11_Witness ==
    \E k \in 1..Len(last.segcalls) :
        LET c == last.segcalls[k]
        IN  /\ c.pre.kind = "Dynamic" /\ c.inner_request = c.pre.size
            /\ Len(c.pre.allocated) = 1 /\ Occupied(c.pre)
            /\ c.pre.current_position.x < c.pre.size.width
            /\ c.pre.current_line_height < c.pre.size.height
            /\ ~c.inner_result.some

\* C12: in allocate_then_copy_surfaces, the iteration of the allocation pass
\* for source i writes results[i] and no other slot, whether it fails or not;
\* a failure adds no handle to a group and does not end the call: the call
\* returns only after every source had its iteration, with one slot each.
C12_FailureStaysInSlot ==
    [][/\ (pc = "batch" /\ pc' = "batch" /\ batch'.sources # batch.sources) =>
            LET i == Len(batch'.sources)
            IN  /\ i = Len(batch.sources) + 1
                /\ batch'.n = batch.n
                /\ Len(batch'.results) = batch.n
                /\ \A j \in 1..batch.n :
                        j # i => batch'.results[j] = batch.results[j]
                /\ batch'.results[i].error # "pending"
                /\ batch'.results[i].ok \/ batch'.results[i].error # ""
                /\ ~batch'.results[i].ok =>
                        batch'.segment_groups = batch.segment_groups
                /\ ~panicked'
       /\ (pc = "batch" /\ pc' = "idle") =>
            /\ Len(batch.sources) = batch.n
            /\ Len(ret'.results) = batch.n
      ]_vars
\* the first source failed in allocate, the second one has its handle
C12_Witness ==
    /\ pc = "batch" /\ Len(batch.sources) = 2
    /\ ~batch.results[1].ok /\ batch.results[1].error = "create texture"
    /\ batch.results[2].ok

\* the blit loop of allocate_then_copy_surfaces has passed every group
BatchDone == pc = "batch" /\ Len(batch.sources) = batch.n /\ NextGroup(batch) = 0
LockAttempts(t) ==
    {k \in 1..Len(events) : events[k].ev = "lock" /\ events[k].texture = t}
\* every successful lock is followed by blits on its texture and then by
\* its unlock, and every blit and unlock belongs to such a bracket
Bracketed(evs) ==
    \A k \in 1..Len(evs) :
        /\ (evs[k].ev = "lock" /\ evs[k].ok) =>
            \E u \in (k + 1)..Len(evs) :
                /\ evs[u].ev = "unlock" /\ evs[u].texture = evs[k].texture
                /\ \A m \in (k + 1)..(u - 1) :
                        evs[m].ev = "blit" /\ evs[m].texture = evs[k].texture
        /\ evs[k].ev \in {"blit", "unlock"} =>
            \E l \in 1..(k - 1) :
                /\ evs[l].ev = "lock" /\ evs[l].ok
                /\ evs[l].texture = evs[k].texture
                /\ \A m \in (l + 1)..(k - 1) : evs[m].ev = "blit"

\* C13: when the blit loop of allocate_then_copy_surfaces is over, the
\* texture of every segment on which this call allocated a rectangle has had
\* exactly one lock attempt, every other texture none, every blit went to the
\* texture of the segment its source was allocated on, between that
\* texture's lock and unlock, and a lock ends before the next one starts.
C13_OneLockPerSegment ==
    BatchDone =>
        /\ \A t \in 1..(next_texture - 1) :
                Cardinality(LockAttempts(t)) =
                    IF \E i \in 1..batch.n : batch.placed[i] = t THEN 1 ELSE 0
        /\ \A k \in 1..Len(events) :
                events[k].ev = "blit" =>
                    batch.placed[events[k].source] = events[k].texture
        /\ Bracketed(events)

\* one pass of the blit loop of allocate_then_copy_surfaces was made
BlitPass == pc = "batch" /\ pc' = "batch" /\ batch'.segment_idx # batch.segment_idx
\* the events of that pass, and the group it was for
PassEvents == SubSeq(events', Len(events) + 1, Len(events'))
PassGroup == batch.segment_groups[batch'.segment_idx]
Right(rect) == rect.position.x + rect.size.width
Bottom(rect) == rect.position.y + rect.size.height
Covers(outer, inner) ==
    /\ outer.position.x <= inner.position.x /\ Right(inner) <= Right(outer)
    /\ outer.position.y <= inner.position.y /\ Bottom(inner) <= Bottom(outer)

\* C14: in a pass of the blit loop the locked rectangle covers the rect of
\* every handle of the group and each of its four sides is the side of one
\* of them (it is the smallest such rectangle); when the lock succeeds, one
\* blit is made per handle, of the size of its source, at the lock-local
\* offset handle.rect.position - bbox.position, so that it lands exactly on
\* handle.rect in the coordinates of the locked texture and stays inside
\* the locked rectangle.
C14_BlitsLandOnHandleRects ==
    [][BlitPass =>
        LET group == PassGroup
            lock == PassEvents[1]
            bbox == lock.rect
            rects == {group[k].handle.rect : k \in 1..Len(group)}
        IN  /\ group # <<>>
            /\ lock.ev = "lock"
            /\ \A k \in 1..Len(group) :
                    lock.texture = GetTexture(segments, group[k].handle)
            \* the sums of the source are made with `+`: none overflows
            /\ \A r \in rects : Right(r) <= UnitMax /\ Bottom(r) <= UnitMax
            /\ \A r \in rects : Covers(bbox, r)
            /\ \E r \in rects : r.position.x = bbox.position.x
            /\ \E r \in rects : r.position.y = bbox.position.y
            /\ \E r \in rects : Right(r) = Right(bbox)
            /\ \E r \in rects : Bottom(r) = Bottom(bbox)
            /\ lock.ok =>
                /\ Len(PassEvents) = Len(group) + 2
                /\ \A k \in 1..Len(group) :
                    LET blit == PassEvents[k + 1]
                        h == group[k].handle
                        landed == RectFrom(
                            PointNew(bbox.position.x + blit.rect.position.x,
                                     bbox.position.y + blit.rect.position.y),
                            blit.rect.size)
                    IN  /\ blit.ev = "blit" /\ blit.source = group[k].i
                        /\ blit.texture = lock.texture
                        /\ blit.rect.position.x = h.rect.position.x - bbox.position.x
                        /\ blit.rect.position.y = h.rect.position.y - bbox.position.y
                        /\ blit.rect.size = batch.sources[group[k].i].size
                        /\ landed = h.rect
                        /\ Covers(bbox, landed)
      ]_vars
\* one lock with two blits at different offsets, the lock not at the origin
C14_Witness ==
    /\ pc = "batch" /\ Len(events) = 4
    /\ events[1].ev = "lock" /\ events[1].ok
    /\ events[1].rect.position # PointNew(0, 0)
    /\ events[2].ev = "blit" /\ events[3].ev = "blit"
    /\ events[2].rect.position # events[3].rect.position

\* C15: when the lock of a pass of the blit loop fails, the result slot of
\* every handle of the group becomes an error carrying the lock's error (the
\* one error for the whole group), no other slot changes, and the segments,
\* their cursors and current_index are left as the allocation pass left them.
C15_LockFailureFailsGroup ==
    [][(BlitPass /\ ~PassEvents[1].ok) =>
        LET group == PassGroup
            members == {group[k].i : k \in 1..Len(group)}
            error == IF TryIntoSdlRect(PassEvents[1].rect)
                     THEN "lock" ELSE "try_from_int"
        IN  /\ Len(PassEvents) = 1
            /\ \A i \in members : batch'.results[i] = ResErr(error)
            /\ \A i \in (1..batch.n) \ members :
                    batch'.results[i] = batch.results[i]
            /\ segments' = segments
            /\ current_index' = current_index
      ]_vars
\* two groups: the lock of one failed, the slot of the other holds its handle
C15_Witness ==
    /\ BatchDone /\ batch.n = 2
    /\ \E k \in 1..Len(events) : events[k].ev = "lock" /\ ~events[k].ok
    /\ \E k \in 1..Len(events) : events[k].ev = "lock" /\ events[k].ok
    /\ \E i, j \in 1..2 :
        /\ batch.results[i] = ResErr("lock")
        /\ batch.results[j].ok
    /\ \E s \in 1..Len(segments) : segments[s].allocated # <<>>

\* the elements of xs at the positions of the sources of the manager's format
RECURSIVE Matching(_, _)
Matching(sources, xs) ==
    IF sources = <<>> THEN <<>>
    ELSE (IF Head(sources).format = pixel_format THEN <<Head(xs)>> ELSE <<>>)
         \o Matching(Tail(sources), Tail(xs))
\* AtlasManager::allocate called once per request, in order, on manager m,
\* the backend answering answers[k] to the k-th call
RECURSIVE AllocateEach(_, _, _)
AllocateEach(m, requests, answers) ==
    IF requests = <<>> THEN [manager |-> m, results |-> <<>>]
    ELSE
    LET r == ManagerAllocate(m.segments, m.current_index, m.next_texture,
                             Head(requests), Head(answers))
        rest == AllocateEach([segments |-> r.segments,
                              current_index |-> r.current_index,
                              next_texture |-> r.next_texture],
                             Tail(requests), Tail(answers))
    IN  [rest EXCEPT !.results = <<[ok |-> r.ok, handle |-> r.handle]>> \o @]

\* C16: when allocate_then_copy_surfaces returns and no lock and no blit of
\* the call failed, the slots of the sources of the manager's format hold, in
\* order, what allocate(size of the source) returns when called one by one in
\* source order on the manager as it was at the call (the same handles, the
\* same failures), no other slot is Ok, and the segments, their cursors and
\* current_index are those the one-by-one calls leave.
C16_BatchAllocatesInSourceOrder ==
    [][(pc = "batch" /\ pc' = "idle"
            /\ \A k \in 1..Len(events) : events[k].ok) =>
        LET sizes == [i \in 1..batch.n |-> batch.sources[i].size]
            ref == AllocateEach(batch.entry, Matching(batch.sources, sizes),
                                Matching(batch.sources, batch.answers))
            got == Matching(batch.sources, ret'.results)
        IN  /\ segments' = ref.manager.segments
            /\ current_index' = ref.manager.current_index
            /\ Len(got) = Len(ref.results)
            /\ \A k \in 1..Len(got) :
                    /\ got[k].ok = ref.results[k].ok
                    /\ got[k].ok => got[k].handle = ref.results[k].handle
            /\ \A i \in 1..batch.n :
                    ret'.results[i].ok => batch.sources[i].format = pixel_format
      ]_vars
\* a returned batch of two sources of different width and height, both Ok,
\* the second allocated after a spill, nothing failed
C16_Witness ==
    /\ pc = "idle" /\ ret.op = "allocate_then_copy_surfaces"
    /\ Len(ret.results) = 2
    /\ ret.results[1].ok /\ ret.results[2].ok
    /\ ret.results[1].handle.rect.size # ret.results[2].handle.rect.size
    /\ ret.results[1].handle.rect.size.width
            # ret.results[1].handle.rect.size.height
    /\ last.op = "allocate_then_copy_surfaces" /\ last.spilled
    /\ \A k \in 1..Len(events) : events[k].ok

\* a call of allocate_then_copy_surface, or one iteration of the allocation
\* pass of allocate_then_copy_surfaces, was made
SingleUpload ==
    /\ pc = "idle" /\ pc' = "idle" /\ submitted' = submitted + 1
    /\ ret'.op = "allocate_then_copy_surface"
AllocationPass == pc = "batch" /\ pc' = "batch" /\ batch'.sources # batch.sources

\* C17: a source of another pixel format than the manager's causes no
\* allocation.  allocate_then_copy_surface returns the format-mismatch error
\* and leaves segments, cursors, current_index and the textures created as
\* they were, with no lock; allocate_then_copy_surfaces writes the
\* format-mismatch error to the source's slot, leaves the manager and the
\* groups as they were, and the source is in no group, has no blit, and its
\* slot still holds that error when the call returns.
C17_MismatchNeverAllocates ==
    [][/\ (SingleUpload /\ ret'.sources[1].format # pixel_format) =>
            /\ ~ret'.ok /\ ret'.error = "format mismatch"
            /\ segments' = segments /\ current_index' = current_index
            /\ next_texture' = next_texture
            /\ handles' = handles
            /\ events' = <<>>
       /\ (AllocationPass
                /\ batch'.sources[Len(batch'.sources)].format # pixel_format) =>
            /\ batch'.results[Len(batch'.sources)] = ResErr("format mismatch")
            /\ segments' = segments /\ current_index' = current_index
            /\ next_texture' = next_texture
            /\ batch'.segment_groups = batch.segment_groups
            /\ events' = events
       /\ pc' = "batch" =>
            \A i \in 1..Len(batch'.sources) :
                batch'.sources[i].format # pixel_format =>
                    /\ batch'.results[i] = ResErr("format mismatch")
                    /\ batch'.placed[i] = 0
                    /\ \A g \in 1..Len(batch'.segment_groups) :
                       \A k \in 1..Len(batch'.segment_groups[g]) :
                            batch'.segment_groups[g][k].i # i
                    /\ \A k \in 1..Len(events') :
                            events'[k].ev = "blit" => events'[k].source # i
       /\ (pc' = "batch" /\ batch'.sources # <<>>
                /\ \A i \in 1..Len(batch'.sources) :
                        batch'.sources[i].format # pixel_format) =>
            events' = <<>>
       /\ ret'.op = "allocate_then_copy_surfaces" =>
            \A i \in 1..Len(ret'.sources) :
                ret'.sources[i].format # pixel_format =>
                    ret'.results[i] = ResErr("format mismatch")
      ]_vars
\* a batch at the end of its blit loop: the first source has another format,
\* the second one was allocated after an earlier allocation and blitted
C17_Witness ==
    /\ BatchDone /\ batch.n = 2
    /\ batch.sources[1].format # pixel_format
    /\ batch.results[1] = ResErr("format mismatch")
    /\ batch.results[2].ok
    /\ batch.results[2].handle.rect.position # PointNew(0, 0)
    /\ Len(events) = 3 /\ events[2].ev = "blit" /\ events[2].source = 2

\* the padding border of an allocation: the rectangle allocate returned it
\* for, less that rectangle with the padding stripped off all sides
Border(allocation) ==
    Pixels(allocation)
    \ Pixels(RectFrom(PointNew(allocation.position.x + padding,
                                allocation.position.y + padding),
                       SizeNew(allocation.size.width - 2 * padding,
                               allocation.size.height - 2 * padding)))

\* C18: after allocate_then_copy_surface has allocated, its one lock is of
\* handle.rect on the texture the handle names, its one blit is at (0,0) of
\* that lock with the size of handle.rect, and no pixel it writes lies in the
\* padding border of an allocation made on the texture it writes to.
C18_UploadWritesInnerRectOnly ==
    (/\ pc = "idle" /\ ret.op = "allocate_then_copy_surface"
     /\ ret.error # "format mismatch"
     /\ last.op = "allocate_then_copy_surface" /\ last.ok) =>
        /\ events # <<>>
        /\ events[1].ev = "lock"
        /\ events[1].rect = last.handle.rect
        /\ events[1].texture = GetTexture(segments, last.handle)
        /\ events[1].ok =>
            /\ Len(events) = 3
            /\ events[2].ev = "blit"
            /\ events[2].texture = events[1].texture
            /\ events[2].rect = RectFrom(PointNew(0, 0), last.handle.rect.size)
            /\ \A s \in 1..Len(segments) :
                    segments[s].texture = events[1].texture =>
                        \A k \in 1..Len(segments[s].allocated) :
                            Pixels(last.handle.rect)
                                \cap Border(segments[s].allocated[k]) = {}

\* the number of guards held on texture t after the events evs
Held(evs, t) ==
    Cardinality({k \in 1..Len(evs) :
                    evs[k].ev = "lock" /\ evs[k].ok /\ evs[k].texture = t})
    - Cardinality({k \in 1..Len(evs) :
                    evs[k].ev = "unlock" /\ evs[k].texture = t})

\* C19: in the locks and unlocks of an upload call, every successful lock is
\* followed, after blits only, by one unlock of the same texture and every
\* unlock ends such a lock; a failed lock is followed by no unlock and no
\* blit; at no point is a texture locked twice; and when the call has
\* returned (or a pass of the blit loop is over) no texture is locked.
C19_LockUnlockBalanced ==
    /\ Bracketed(events)
    /\ \A k \in 1..Len(events) :
            (events[k].ev = "lock" /\ ~events[k].ok) =>
                (k = Len(events) \/ events[k + 1].ev = "lock")
    /\ \A t \in 1..(next_texture - 1) :
            /\ \A n \in 0..Len(events) : Held(SubSeq(events, 1, n), t) \in {0, 1}
            /\ Held(events, t) = 0
\* a returned call in which a lock failed and the next lock succeeded
C19_Witness ==
    /\ pc = "idle" /\ ret.op = "allocate_then_copy_surfaces"
    /\ \E k \in 1..(Len(events) - 1) :
        /\ events[k].ev = "lock" /\ ~events[k].ok
        /\ events[k + 1].ev = "lock" /\ events[k + 1].ok
        /\ events[Len(events)].ev = "unlock"

\* a failed set_render_target built no guard and left the target as it was
FailedSetChangesNothing ==
    (renderer.call.op = "set_render_target" /\ ~renderer.call.ok) =>
        /\ renderer.target = renderer.call.before
        /\ renderer.guards = renderer.call.guards

DstByte(a, bpp, y, k) ==
    (a.dst_pos.y + y) * a.dst_pitch + a.dst_pos.x * bpp + k
SrcByte(a, bpp, y, k) ==
    (a.src_rect.position.y + y) * a.src_pitch + a.src_rect.position.x * bpp + k
RowsOf(a) == 0..(a.src_rect.size.height - 1)
BytesOfRow(a, bpp) == 0..(a.src_rect.size.width * bpp - 1)
\* dst after the call holds the source byte at every target byte and what it
\* held before everywhere else
CopiedExactly(c, bpp) ==
    /\ \A y \in RowsOf(c.args) : \A k \in BytesOfRow(c.args, bpp) :
            c.dst[DstByte(c.args, bpp, y, k)] = c.src[SrcByte(c.args, bpp, y, k)]
    /\ \A i \in DOMAIN c.dst :
            (\A y \in RowsOf(c.args) : \A k \in BytesOfRow(c.args, bpp) :
                    i # DstByte(c.args, bpp, y, k))
                => c.dst[i] = c.before[i]
\* the rows of the copy do not share a byte of dst
DstRowsDisjoint(a, bpp) ==
    a.src_rect.size.height <= 1 \/ a.dst_pitch >= a.src_rect.size.width * bpp
Supported(bits) == bits \in {8 * n : n \in 1..31}
CopyReturned == invocation.op = "copy_pixels" /\ invocation.returned

\* C21 as stated: for a supported format copy_pixels makes every target byte
\* of dst equal to its source byte and leaves every other byte of dst, for
\* every rectangle, position and pair of pitches.
C21_CopiesEveryRow ==
    (CopyReturned /\ Supported(invocation.args.bits)) =>
        /\ invocation.ok
        /\ CopiedExactly(invocation, invocation.args.bits \div 8)

\* C21 amended: for a supported format with bytes-per-pixel bpp, and a
\* destination whose rows do not share a byte (height at most 1 or
\* dst_pitch >= src_rect.width * bpp), copy_pixels makes every byte
\* dst[(dst_pos.y + y) * dst_pitch + dst_pos.x * bpp + k] equal to
\* src[(src_rect.y + y) * src_pitch + src_rect.x * bpp + k] and leaves every
\* other byte of dst unchanged; a full-rectangle copy to (0,0) with equal
\* pitches reproduces the source bytes of the rectangle at any pitch.
C21_CopiesDisjointRows ==
    (CopyReturned /\ Supported(invocation.args.bits)) =>
        LET a == invocation.args
            bpp == a.bits \div 8
        IN  /\ invocation.ok
            /\ DstRowsDisjoint(a, bpp) => CopiedExactly(invocation, bpp)
            /\ (/\ a.src_rect.position = PointNew(0, 0)
                /\ a.dst_pos = PointNew(0, 0)
                /\ a.src_pitch = a.dst_pitch)
                => \A y \in RowsOf(a) : \A k \in BytesOfRow(a, bpp) :
                        invocation.dst[DstByte(a, bpp, y, k)]
                            = invocation.src[DstByte(a, bpp, y, k)]
\* a two-row, two-pixel copy of two-byte pixels between different offsets
\* and different pitches, rows disjoint in dst
C21_Witness ==
    /\ CopyReturned /\ invocation.ok
    /\ invocation.args.bits = 16
    /\ invocation.args.src_rect = RectFrom(PointNew(1, 1), SizeNew(2, 2))
    /\ invocation.args.dst_pos = PointNew(0, 1)
    /\ invocation.args.src_pitch = 3 /\ invocation.args.dst_pitch = 4
    /\ invocation.dst[4] = invocation.src[5]
    /\ invocation.dst[11] = invocation.src[11]
    /\ invocation.dst[12] = 0

\* the bytes of dst the call changed (the source holds no zero byte, the
\* destination only zero bytes)
BytesWritten(c) == Cardinality({i \in DOMAIN c.dst : c.dst[i] # c.before[i]})

\* C22: copy_pixels uses bits_per_pixel / 8 bytes per pixel for every
\* bits_per_pixel in {8, 16, ..., 248} (a one-pixel copy writes that many
\* bytes), and for every other value of the bits-per-pixel byte it returns
\* the unsupported-format error with dst as it was.
C22_BytesPerPixelTable ==
    CopyReturned =>
        LET a == invocation.args
        IN  IF Supported(a.bits)
            THEN /\ invocation.ok
                 /\ a.src_rect.size = SizeNew(1, 1) =>
                        /\ BytesWritten(invocation) = a.bits \div 8
                        /\ \A k \in 0..(a.bits \div 8 - 1) :
                            invocation.dst[DstByte(a, a.bits \div 8, 0, k)]
                                = invocation.src[SrcByte(a, a.bits \div 8, 0, k)]
            ELSE /\ ~invocation.ok
                 /\ invocation.error = "unsupported format"
                 /\ invocation.dst = invocation.before
\* a copy of one 248-bit pixel wrote 31 bytes
C22_Witness ==
    /\ CopyReturned /\ invocation.ok
    /\ invocation.args.bits = 248
    /\ BytesWritten(invocation) = 31

\* ---- allocate_with_padding ----
PadReturned == invocation.op = "allocate_with_padding" /\ invocation.returned
\* no addition of the call saturates: the padded request, and the shifted
\* origin when there is one, are below the largest PointUnit
NoSaturation(c) ==
    /\ 2 * c.padding <= UnitMax
    /\ c.request.width + 2 * c.padding <= UnitMax
    /\ c.request.height + 2 * c.padding <= UnitMax
    /\ c.inner_result.some =>
        /\ c.inner_result.value.x + c.padding <= UnitMax
        /\ c.inner_result.value.y + c.padding <= UnitMax

\* C23: when no addition saturates, allocate_with_padding(request, p)
\* succeeds exactly when allocate(request.outset(p)) on the same segment
\* succeeds, returns that origin shifted by (p, p) and leaves the segment
\* that call leaves; the handle rect (inner origin, request) is the padded
\* rectangle (origin, request.outset(p)) inset by p.
C23_PaddingShiftsInnerOrigin ==
    (PadReturned /\ NoSaturation(invocation)) =>
        LET c == invocation
            p == c.padding
            padded == SizeNew(c.request.width + 2 * p, c.request.height + 2 * p)
            plain == SegAllocate(c.seg, padded)
        IN  /\ c.result.some = plain.result.some
            /\ c.post = plain.seg
            /\ plain.result.some =>
                /\ c.result.value = PointNew(plain.result.value.x + p,
                                             plain.result.value.y + p)
                /\ c.rect = RectFrom(c.result.value, c.request)
                /\ c.rect = inset(RectFrom(plain.result.value, padded), p)
                /\ c.rect = inset(RectFrom(plain.result.value,
                                           outset(c.request, p)), p)
\* a padded request placed on the next line of a used segment
C23_Witness ==
    /\ PadReturned /\ NoSaturation(invocation)
    /\ invocation.padding = 1 /\ invocation.request = SizeNew(2, 1)
    /\ invocation.seg.current_position.x = I32Max
    /\ invocation.result.some
    /\ invocation.result.value = PointNew(1, invocation.inner_result.value.y + 1)
    /\ invocation.inner_result.value.y > 0

\* C24: the saturating fit tests and padding arithmetic accept a request
\* only if the shelf rule over unbounded integers accepts the request padded
\* over unbounded integers on the same segment size and cursor.
C24_SaturationNeverAccepts ==
    (PadReturned /\ invocation.result.some) =>
        LET c == invocation
        IN  ShelfRule(c.seg.size.width, c.seg.size.height,
                      c.seg.current_position, c.seg.current_line_height,
                      c.request.width + 2 * c.padding,
                      c.request.height + 2 * c.padding).some
\* a request whose padding saturates was refused although the saturated
\* sum, wrapped, would have fitted
C24_Witness ==
    /\ PadReturned /\ ~invocation.result.some
    /\ invocation.request.width + 2 * invocation.padding > UnitMax
    /\ (invocation.request.width + 2 * invocation.padding) % (2^UnitBits)
            <= invocation.seg.size.width
    /\ invocation.inner_request.width = UnitMax
    /\ invocation.seg.current_position = PointNew(0, 0)
    /\ invocation.request.height = 1 /\ invocation.seg.size.height = I32Max

\* ---- render ----
\* C25 as stated: render returns an error whenever the backend draw call for
\* the handle's texture fails, and Ok only when the draw succeeded.
C25_RenderReportsDrawFailure ==
    invocation.op = "render" => (invocation.ok <=> invocation.drawn)

\* ---- lock rectangles ----
\* the segment that owns texture t
SegmentOf(t) == CHOOSE k \in 1..Len(segments) : segments[k].texture = t
WithinTexture(rect, t) ==
    /\ \E k \in 1..Len(segments) : segments[k].texture = t
    /\ Right(rect) <= segments[SegmentOf(t)].size.width
    /\ Bottom(rect) <= segments[SegmentOf(t)].size.height

\* C26 as stated: every lock rectangle the upload calls request lies within
\* the bounds of the texture it is requested on.
C26_LockRectsWithinTexture ==
    \A k \in 1..Len(events) :
        events[k].ev = "lock" => WithinTexture(events[k].rect, events[k].texture)

\* ---- failed allocate ----
\* the last call of AtlasManager::allocate returned an error
AllocateFailed(l, p) == l.op \in AllocOps /\ ~l.ok /\ ~p

\* C27: a step after which the last allocate call is one that returned an
\* error leaves the segment list (number of segments, every cursor, every
\* texture), current_index and the textures created as they were; the
\* manager a later allocate works on is the one before the failed call.
C27_FailedAllocateChangesNothing ==
    [][AllocateFailed(last', panicked') => manager' = manager]_vars
\* allocate failed to create a texture on a manager that had spilled before
\* and whose current segment holds an allocation
C27_Witness ==
    /\ AllocateFailed(last, panicked)
    /\ ret.op = "allocate" /\ ~ret.ok /\ ret.error = "create texture"
    /\ Len(segments) >= 2
    /\ segments[current_index + 1].current_position # PointNew(0, 0)
    /\ Len(last.segcalls) = 1 /\ last.segcalls[1].pre = segments[current_index + 1]

\* ---- the results vector ----
\* the errors a source can hit in allocate_then_copy_surfaces
SourceErrors ==
    {"format mismatch", "create texture", "try_from_int", "lock",
     "unsupported format"}
BatchReturns == BatchDone /\ pc' = "idle"

\* C28: the vector allocate_then_copy_surfaces returns has one slot per
\* source, in source order; a slot that is Ok holds the handle allocate
\* returned for that source (of the source's size), any other slot holds the
\* error that source hit (the format-mismatch error exactly for a source of
\* another format), and no slot holds the "pending" placeholder.
C28_OneSettledSlotPerSource ==
    [][BatchReturns =>
        /\ ret'.op = "allocate_then_copy_surfaces"
        /\ ret'.sources = batch.sources
        /\ Len(ret'.results) = Len(batch.sources)
        /\ \A i \in 1..Len(ret'.results) :
            LET slot == ret'.results[i]
            IN  /\ slot.error # "pending"
                /\ slot.ok =>
                    /\ \E g \in 1..Len(batch.segment_groups) :
                        \E k \in 1..Len(batch.segment_groups[g]) :
                            /\ batch.segment_groups[g][k].i = i
                            /\ batch.segment_groups[g][k].handle = slot.handle
                    /\ slot.handle.rect.size = SurfaceSize(batch.sources[i])
                /\ ~slot.ok =>
                    /\ slot.error \in SourceErrors
                    /\ slot.error = "format mismatch"
                            <=> FormatMismatch(batch.sources[i])]_vars
\* a returned call of two sources of different sizes: the first slot holds
\* the error of a failed texture creation, the second the second's handle
C28_Witness ==
    /\ pc = "idle" /\ ret.op = "allocate_then_copy_surfaces"
    /\ Len(ret.results) = 2
    /\ ~ret.results[1].ok /\ ret.results[1].error = "create texture"
    /\ ret.results[2].ok
    /\ ret.results[2].handle.rect.size = ret.sources[2].size
    /\ ret.sources[1].size # ret.sources[2].size

\* ---- the frame of allocate ----
Cursor(seg) == <<seg.current_position, seg.current_line_height>>
\* the segments of the step's end whose cursor is not the one the same
\* segment had at the step's start (a segment created by the step counts
\* when its cursor has left the origin)
CursorChanged ==
    {k \in 1..Len(segments') :
        IF k <= Len(segments) THEN Cursor(segments'[k]) # Cursor(segments[k])
        ELSE Cursor(segments'[k]) # <<PointNew(0, 0), 0>>}

\* C29: a step (each holds at most one allocate call) changes the cursor of
\* at most one segment, which is the segment that was current when the call
\* began or the one segment the call appended; no other segment changes at
\* all and current_index never decreases, so the cursor of a segment the
\* manager has spilled past never changes again.
C29_OneCursorPerAllocate ==
    [][/\ Len(segments') \in {Len(segments), Len(segments) + 1}
       /\ Cardinality(CursorChanged) <= 1
       /\ CursorChanged \subseteq
            {current_index + 1} \cup ((Len(segments) + 1)..Len(segments'))
       /\ \A k \in 1..Len(segments) :
            k # current_index + 1 => segments'[k] = segments[k]
       /\ current_index' >= current_index
       /\ \A k \in 1..Len(segments) :
            k < current_index + 1 => Cursor(segments'[k]) = Cursor(segments[k])
      ]_vars
\* a spill after an allocation on the first segment: the first segment keeps
\* the cursor that allocation left, the new segment holds the new rectangle
C29_Witness ==
    /\ last.op \in AllocOps /\ last.ok /\ last.spilled
    /\ Len(segments) = 2 /\ current_index = 1
    /\ Cursor(segments[1]) # <<PointNew(0, 0), 0>>
    /\ Cursor(segments[1]) = Cursor(last.segcalls[1].pre)
    /\ Cursor(segments[2]) # <<PointNew(0, 0), 0>>

\* ---- a failed single upload ----
\* allocate_then_copy_surface returned the error of the lock or of the blit
UploadFailed ==
    /\ SingleUpload /\ ~ret'.ok
    /\ ret'.error \in {"try_from_int", "lock", "unsupported format"}
\* no handle returned after a region was lost names a pixel of the region
LostRegionsKept ==
    \A k \in 1..Len(segments) : \A j \in 1..Len(segments[k].lost) :
        \A i \in (segments[k].lost[j].after + 1)..Len(handles) :
            handles[i].index = k =>
                Pixels(handles[i].rect) \cap Pixels(segments[k].lost[j].rect) = {}

\* C30 as stated: when allocate_then_copy_surface fails after its allocation
\* step it returns the error and no handle, the allocation made by the step
\* (the rectangle allocated on the current segment, or on a new one) stays,
\* and no later allocation hands the region out.
C30_FailedUploadKeepsRegion ==
    [][/\ UploadFailed =>
            /\ ret'.handle = NoHandle /\ handles' = handles
            /\ last'.ok
            /\ Len(segments') = Len(segments) + (IF last'.spilled THEN 1 ELSE 0)
            /\ LET seg == segments'[current_index' + 1]
               IN  /\ seg.allocated # <<>>
                   /\ seg.allocated[Len(seg.allocated)]
                        = last'.segcalls[Len(last'.segcalls)].post.allocated[
                                Len(seg.allocated)]
                   /\ current_index' = current_index =>
                        Len(seg.allocated)
                            = Len(segments[current_index + 1].allocated) + 1
       /\ LostRegionsKept'
      ]_vars

====
